---------------------------- MODULE Spec2Model ----------------------------
(***************************************************************************)
(* State-machine model of the QuantAI-OS signal pipeline:                  *)
(*   risk/sizing.py    KellySizer                                          *)
(*   risk/regimes.py   RegimeDetector                                      *)
(*   models/trees.py   XGBoostPredictor                                    *)
(*   models/linear.py  ElasticNetPredictor                                 *)
(*   models/ensemble.py EnsemblePredictor                                  *)
(*   data/features.py  FeatureEngineer                                     *)
(*   ai/commentary.py  AICommentary                                        *)
(*   data/loader.py    DataLoader                                          *)
(*   logger.py         QuantLogger, get_logger                             *)
(*                                                                         *)
(* Python floats are modelled as exact rationals <<num, den>> (den > 0,    *)
(* lowest terms); the float NaN that pandas produces is the value NaN.     *)
(* Python's None is the value None.  Library fits (hmmlearn, sklearn) are  *)
(* not part of the repository: their results are drawn nondeterministically*)
(* from the values the library can return.                                 *)
(***************************************************************************)
EXTENDS Integers, Sequences, FiniteSets, TLC

VARIABLES
    \* KellySizer (risk/sizing.py)
    max_position,        \* self.max_position
    kelly_fraction,      \* self._kelly_fraction
    adjusted_fraction,   \* self._adjusted_fraction
    kelly_call,          \* arguments and return value of the last calculate()
    \* XGBoostPredictor (models/trees.py), ElasticNetPredictor (models/linear.py)
    dataset,             \* the (X, y, test_size) the caller holds
    xgb,                 \* fields of an XGBoostPredictor
    xgb_call,            \* locals of its last fit_predict()
    elastic,             \* fields of an ElasticNetPredictor
    elastic_call,        \* locals of its last fit_predict()
    twin,                \* fields of a second ElasticNetPredictor
    twin_call,           \* locals of its last fit_predict()
    \* EnsemblePredictor (models/ensemble.py); its self.xgb and self.elastic
    \* are xgb and elastic above
    ens,                 \* _ensemble_prediction, _ensemble_confidence, _win_probability
    ens_call,            \* locals of its last fit_predict()
    \* RegimeDetector (risk/regimes.py)
    market,              \* the return series and what the seeded HMM makes of it
    n_regimes,           \* self.n_regimes
    regime_model,        \* self.model
    volatilities,        \* self._volatilities
    current_regime,      \* self._current_regime
    regime_probs,        \* self._regime_probs
    regime_call,         \* locals of the last fit_predict()
    \* FeatureEngineer (data/features.py)
    fe_data,             \* self.data
    fe_features,         \* self._features
    fe_target,           \* self._target
    fe_call,             \* what the last create_features() returned
    \* AICommentary (ai/commentary.py)
    groq,                \* settings.groq_api_key and whether a client can be built
    ai,                  \* self.client, self._commentary
    ai_call,             \* arguments and outcome of the last generate()
    \* DataLoader (data/loader.py)
    loader,              \* self.ticker, self._data, self._info
    loader_call,         \* provider responses and outcome of the last fetch()
    \* QuantLogger (logger.py)
    QuantLogger,         \* the class attributes _instance and _initialized
    objects,             \* the QuantLogger objects allocated so far
    handlers,            \* logging.getLogger("quantai").handlers
    thread,              \* each thread's position in QuantLogger() and what it got
    log_file             \* the lines written to logs/system.log

kellyVars == <<max_position, kelly_fraction, adjusted_fraction, kelly_call>>
clfVars == <<dataset, xgb, xgb_call, elastic, elastic_call, twin, twin_call>>
ensVars == <<ens, ens_call>>
regimeVars == <<market, n_regimes, regime_model, volatilities, current_regime,
                regime_probs, regime_call>>

feVars == <<fe_data, fe_features, fe_target, fe_call>>

aiVars == <<groq, ai, ai_call>>
loaderVars == <<loader, loader_call>>
loggerVars == <<QuantLogger, objects, handlers, thread, log_file>>

vars == <<kellyVars, clfVars, ensVars, regimeVars, feVars, aiVars, loaderVars,
          loggerVars>>

-----------------------------------------------------------------------------
(* Values *)

None == <<>>
\* An optional field holding the integer v (None otherwise).
Some(v) == <<v>>
NaN == <<0, 0>>
Inf == <<1, 0>>
IsFinite(x) == x[2] # 0

\* Absolute value and greatest common divisor, used to keep rationals in
\* lowest terms so that equal numbers are equal values.
Abs(n) == IF n < 0 THEN -n ELSE n

RECURSIVE GCD(_, _)
GCD(a, b) == IF b = 0 THEN a ELSE GCD(b, a % b)

Rat(n, d) ==
    LET g == GCD(Abs(n), Abs(d))
        s == IF d < 0 THEN -1 ELSE 1
    IN  <<(s * n) \div g, (s * d) \div g>>

RAdd(a, b) == Rat(a[1] * b[2] + b[1] * a[2], a[2] * b[2])
RSub(a, b) == Rat(a[1] * b[2] - b[1] * a[2], a[2] * b[2])
RMul(a, b) == Rat(a[1] * b[1], a[2] * b[2])
RDiv(a, b) == Rat(a[1] * b[2], a[2] * b[1])
RLt(a, b)  == a[1] * b[2] < b[1] * a[2]
RLe(a, b)  == a[1] * b[2] <= b[1] * a[2]
RMax(a, b) == IF RLt(a, b) THEN b ELSE a
RMin(a, b) == IF RLt(b, a) THEN b ELSE a

Zero == Rat(0, 1)
One  == Rat(1, 1)

\* A property read either returns a value or raises.
Returned(v) == [raised |-> FALSE, value |-> v]
Raised(e)   == [raised |-> TRUE, exc |-> e]

-----------------------------------------------------------------------------
(* KellySizer *)

\* Largest avg_win / avg_loss drawn, in hundredths.
MaxReturnPct == 2
\* Largest regime_factor drawn, in quarters.
MaxFactorQuarters == 4

\* Below, inside and above the clamp range [0.01, 0.99].
WinProbabilities == {Rat(-1, 10), Rat(3, 10), Rat(3, 5), Rat(9, 10), Rat(11, 10)}
AvgWins == {Rat(k, 100) : k \in 1..MaxReturnPct}
AvgLosses == {Rat(k, 100) : k \in 0..MaxReturnPct}
RegimeFactors == {Rat(k, 4) : k \in 0..MaxFactorQuarters}
MaxPositions == {Zero, Rat(1, 4), One}

\* np.clip(x, lo, hi)
Clip(x, lo, hi) == RMin(RMax(x, lo), hi)

\* Variant: the zero-loss default mistyped as 0.001.
SubstituteLoss_Milli(avg_loss) ==
    IF avg_loss = Zero THEN Rat(1, 1000) ELSE avg_loss

\* if avg_loss == 0: avg_loss = 0.01
SubstituteLoss(avg_loss) == IF avg_loss = Zero THEN Rat(1, 100) ELSE avg_loss

\* kelly = (win_prob * b - loss_prob) / b, floored at 0
FullKelly(win_probability, avg_win, avg_loss) ==
    LET loss     == SubstituteLoss(avg_loss)
        win_prob == Clip(win_probability, Rat(1, 100), Rat(99, 100))
        loss_prob == RSub(One, win_prob)
        b        == RDiv(avg_win, loss)
        kelly    == RDiv(RSub(RMul(win_prob, b), loss_prob), b)
    IN  RMax(Zero, kelly)

\* Variant: the cap at max_position is left out.
AdjustedFraction_NoCap(kelly, regime_factor, max_pos) ==
    RMul(RMul(kelly, Rat(1, 2)), regime_factor)

\* half-Kelly, regime adjusted, capped at max_position
AdjustedFraction(kelly, regime_factor, max_pos) ==
    LET half_kelly      == RMul(kelly, Rat(1, 2))
        regime_adjusted == RMul(half_kelly, regime_factor)
    IN  RMin(regime_adjusted, max_pos)

KellyInit ==
    /\ max_position \in MaxPositions
    /\ kelly_fraction = None
    /\ adjusted_fraction = None
    /\ kelly_call = None

KellyIdle ==
    /\ max_position = Rat(1, 4)
    /\ kelly_fraction = None
    /\ adjusted_fraction = None
    /\ kelly_call = None

\* Variant: the half-Kelly damping is left out.
Calculate_NoDamping(win_probability, avg_win, avg_loss, regime_factor) ==
    LET kelly == FullKelly(win_probability, avg_win, avg_loss)
        adj   == RMin(RMul(kelly, regime_factor), max_position)
    IN  /\ kelly_fraction' = kelly
        /\ adjusted_fraction' = adj
        /\ kelly_call' = [win_probability |-> win_probability,
                          avg_win |-> avg_win,
                          avg_loss |-> avg_loss,
                          regime_factor |-> regime_factor,
                          returned |-> adj]
        /\ UNCHANGED max_position

Calculate(win_probability, avg_win, avg_loss, regime_factor) ==
    LET kelly == FullKelly(win_probability, avg_win, avg_loss)
        adj   == AdjustedFraction(kelly, regime_factor, max_position)
    IN  /\ kelly_fraction' = kelly
        /\ adjusted_fraction' = adj
        /\ kelly_call' = [win_probability |-> win_probability,
                          avg_win |-> avg_win,
                          avg_loss |-> avg_loss,
                          regime_factor |-> regime_factor,
                          returned |-> adj]
        /\ UNCHANGED max_position

KellyCalculate ==
    \E p \in WinProbabilities, w \in AvgWins, l \in AvgLosses,
       rf \in RegimeFactors :
        Calculate(p, w, l, rf)

full_kelly ==
    IF kelly_fraction = None THEN Raised("ValueError")
    ELSE Returned(kelly_fraction)

recommended_size ==
    IF adjusted_fraction = None THEN Raised("ValueError")
    ELSE Returned(adjusted_fraction)

-----------------------------------------------------------------------------
(* Feature matrix and labels *)

\* Largest number of rows of a feature matrix drawn.
MaxRows == 6
\* Number of rows of the matrices of the two compared runs.
TwinRows == 5

\* One row of the aligned (X, y) pair: its index label t, one feature
\* column f and its label y.
Row(t, f, y) == [t |-> t, f |-> f, y |-> y]

Labels == {0, 1}

\* df.iloc[:-1]
ILocAllButLast(X) == SubSeq(X, 1, Len(X) - 1)

\* df.iloc[-1:]
ILocLast(X) == IF Len(X) = 0 THEN <<>> ELSE SubSeq(X, Len(X), Len(X))

Index(X) == [i \in 1..Len(X) |-> X[i].t]
Features(X) == [i \in 1..Len(X) |-> X[i].f]
Targets(X) == [i \in 1..Len(X) |-> X[i].y]

\* ceil(a / b) for b > 0
CeilDiv(a, b) == -((-a) \div b)

\* Variant: the test rows are taken from the front of the frame.
TrainTestSplit_TestFirst(X, test_size) ==
    LET n       == Len(X)
        n_test  == CeilDiv(test_size[1] * n, test_size[2])
        n_train == n - n_test
    IN  IF n_train = 0 THEN [raised |-> TRUE]
        ELSE [raised |-> FALSE,
              train |-> SubSeq(X, n_test + 1, n),
              test |-> SubSeq(X, 1, n_test)]

\* sklearn train_test_split(X, y, test_size=test_size, shuffle=False):
\* n_test = ceil(test_size * n), n_train = n - n_test, an empty train set
\* is a ValueError; train is the first n_train rows and test the rest.
TrainTestSplit(X, test_size) ==
    LET n       == Len(X)
        n_test  == CeilDiv(test_size[1] * n, test_size[2])
        n_train == n - n_test
    IN  IF n_train = 0 THEN [raised |-> TRUE]
        ELSE [raised |-> FALSE,
              train |-> SubSeq(X, 1, n_train),
              test |-> SubSeq(X, n_train + 1, n)]

RECURSIVE RSum(_)
RSum(s) == IF Len(s) = 0 THEN Zero ELSE RAdd(Head(s), RSum(Tail(s)))

AllFinite(X) == \A i \in 1..Len(X) : IsFinite(X[i].f)
SingleClass(X) == Cardinality({X[i].y : i \in 1..Len(X)}) < 2

\* StandardScaler.fit: per-column mean and (population) variance.
ScalerFit(X) ==
    LET fs   == Features(X)
        n    == Rat(Len(X), 1)
        mean == RDiv(RSum(fs), n)
        sq   == [i \in 1..Len(fs) |-> RMul(RSub(fs[i], mean), RSub(fs[i], mean))]
    IN  [mean |-> mean, var |-> RDiv(RSum(sq), n)]

\* What a classifier's fit consumes: the centred training features (the
\* scale is scaler.var) and the training labels.  With the fixed
\* random_state the fitted estimator is a function of these.
Centred(X, scaler) == [i \in 1..Len(X) |-> RSub(X[i].f, scaler.mean)]

Unset == [accuracy |-> None, prediction |-> None, confidence |-> None]

\* What the library returns from score / predict / predict_proba, and
\* whether its fit succeeds.
Outcome(fit_ok, hits, prediction, confidence) ==
    [fit_ok |-> fit_ok, hits |-> hits, prediction |-> prediction,
     confidence |-> confidence]

\* A failed fit, or a fit with a held-out score, a class and its probability.
Outcomes(hits, confidences) ==
    {Outcome(FALSE, 0, 0, One)} \cup
    {Outcome(TRUE, h, p, c) : h \in hits, p \in Labels, c \in confidences}

\* The locals of a fit_predict call; last is what the object's most recent
\* completed call produced (None while no call has completed).
CallRecord(prev, X, test_size, sp, completed, ret, acc) ==
    [n_rows |-> Len(X), test_size |-> test_size,
     train |-> IF sp.raised THEN <<>> ELSE Index(sp.train),
     test |-> IF sp.raised THEN <<>> ELSE Index(sp.test),
     latest |-> IF sp.raised THEN <<>> ELSE Index(ILocLast(X)),
     completed |-> completed, returned |-> ret,
     last |-> IF completed
              THEN [prediction |-> ret[1], confidence |-> ret[2], accuracy |-> acc]
              ELSE IF prev = None THEN None ELSE prev.last]

-----------------------------------------------------------------------------
(* XGBoostPredictor *)

XgbNew == [model |-> None] @@ Unset

\* fit_predict on object self; yields the object afterwards and the call's
\* locals.  HistGradientBoosting accepts non-finite features and labels of
\* a single class; with early_stopping=True it holds out a
\* validation_fraction of the training rows, which one row does not allow.
XgbFitPredictSplit(self, prev, X, test_size, o, sp) ==
        IF sp.raised
        THEN [self |-> self,
              call |-> CallRecord(prev, X, test_size, sp, FALSE, None, None)]
        ELSE IF ~o.fit_ok \/ Len(sp.train) < 2
        THEN [self |-> [self EXCEPT !.model = [fitted |-> FALSE]],
              call |-> CallRecord(prev, X, test_size, sp, FALSE, None, None)]
        ELSE [self |-> [model |-> [fitted |-> TRUE,
                                   fit_X |-> Features(sp.train),
                                   fit_y |-> Targets(sp.train)],
                        accuracy |-> Rat(o.hits, Len(sp.test)),
                        prediction |-> Some(o.prediction),
                        confidence |-> o.confidence],
              call |-> CallRecord(prev, X, test_size, sp, TRUE,
                                  <<o.prediction, o.confidence>>,
                                  Rat(o.hits, Len(sp.test)))]

XgbFitPredict(self, prev, X, test_size, o) ==
    XgbFitPredictSplit(self, prev, X, test_size, o,
                       TrainTestSplit(ILocAllButLast(X), test_size))

-----------------------------------------------------------------------------
(* ElasticNetPredictor *)

ElasticNew == [pipeline |-> None] @@ Unset

\* Variant: the scaler is fitted on every row but the prediction row.
ScalerInput_TrainAndTest(X, sp) == ILocAllButLast(X)

\* The rows handed to pipeline.fit, whose scaler is fitted on them.
ScalerInput(X, sp) == sp.train

\* fit_predict on object self.  The pipeline's scaler and classifier
\* reject non-finite features; the classifier rejects single-class labels.
ElasticFitPredictSplit(self, prev, X, test_size, o, sp, X_latest) ==
        IF sp.raised
        THEN [self |-> self,
              call |-> CallRecord(prev, X, test_size, sp, FALSE, None, None)]
        ELSE IF ~o.fit_ok \/ ~AllFinite(sp.train) \/ SingleClass(sp.train)
        THEN [self |-> [self EXCEPT !.pipeline = [fitted |-> FALSE]],
              call |-> CallRecord(prev, X, test_size, sp, FALSE, None, None)]
        ELSE LET fit_rows == ScalerInput(X, sp)
                 scaler == ScalerFit(fit_rows)
                 pipe == [fitted |-> TRUE,
                          scaler |-> scaler,
                          fit_X |-> Centred(sp.train, scaler),
                          fit_y |-> Targets(sp.train)]
                 scored == [self EXCEPT !.pipeline = pipe,
                                        !.accuracy = Rat(o.hits, Len(sp.test))]
             IN  IF ~AllFinite(sp.test)
                 THEN [self |-> [self EXCEPT !.pipeline = pipe],
                       call |-> CallRecord(prev, X, test_size, sp, FALSE, None, None)]
                 ELSE IF ~AllFinite(X_latest)
                 THEN [self |-> scored,
                       call |-> CallRecord(prev, X, test_size, sp, FALSE, None, None)]
                 ELSE [self |-> [scored EXCEPT !.prediction = Some(o.prediction),
                                               !.confidence = o.confidence],
                       call |-> CallRecord(prev, X, test_size, sp, TRUE,
                                           <<o.prediction, o.confidence>>,
                                           scored.accuracy)]

ElasticFitPredict(self, prev, X, test_size, o) ==
    ElasticFitPredictSplit(self, prev, X, test_size, o,
                           TrainTestSplit(ILocAllButLast(X), test_size),
                           ILocLast(X))

\* The result properties of either classifier object.
prediction(self) ==
    IF self.prediction = None THEN Raised("ValueError")
    ELSE Returned(self.prediction[1])

confidence(self) ==
    IF self.confidence = None THEN Raised("ValueError")
    ELSE Returned(self.confidence)

accuracy(self) ==
    IF self.accuracy = None THEN Raised("ValueError")
    ELSE Returned(self.accuracy)

\* Library results drawn when a classifier is called on its own.
SplitOutcomes == Outcomes({1}, {One})

\* The datasets a caller holds: up to MaxRows time-ordered rows with any
\* labels, feature t in row t, the most recent row finite or not; the
\* default test_size or one half.
SplitDatasets ==
    {[X |-> [i \in 1..n |-> Row(i, IF i = n THEN last ELSE Rat(i, 1), ys[i])],
      test_size |-> ts] :
        n \in 0..MaxRows, ys \in [1..MaxRows -> Labels],
        last \in {Rat(MaxRows, 1), Inf}, ts \in {Rat(1, 5), Rat(1, 2)}}

\* Pairs of TwinRows-row matrices for two runs: they share their first
\* row and their labels and may differ in every other feature value.
TwinDatasets ==
    {[X |-> [i \in 1..TwinRows |-> Row(i, Rat(fs[i], 1), i % 2)],
      X_twin |-> [i \in 1..TwinRows |->
                    Row(i, Rat(IF i = 1 THEN fs[i] ELSE gs[i], 1), i % 2)],
      test_size |-> Rat(1, 5)] :
        fs \in [1..TwinRows -> {0, 1}], gs \in [1..TwinRows -> {0, 1}]}

XgbCall ==
    \E o \in SplitOutcomes :
        \E r \in {XgbFitPredict(xgb, xgb_call, dataset.X, dataset.test_size, o)} :
            /\ xgb' = r.self
            /\ xgb_call' = r.call
            /\ UNCHANGED <<dataset, elastic, elastic_call, twin, twin_call>>

ElasticCall ==
    \E o \in SplitOutcomes :
        \E r \in {ElasticFitPredict(elastic, elastic_call, dataset.X, dataset.test_size, o)} :
            /\ elastic' = r.self
            /\ elastic_call' = r.call
            /\ UNCHANGED <<dataset, xgb, xgb_call, twin, twin_call>>

TwinCall ==
    \E o \in SplitOutcomes :
        \E r \in {ElasticFitPredict(twin, twin_call, dataset.X_twin, dataset.test_size, o)} :
            /\ twin' = r.self
            /\ twin_call' = r.call
            /\ UNCHANGED <<dataset, xgb, xgb_call, elastic, elastic_call>>

ClfFresh ==
    /\ xgb = XgbNew
    /\ xgb_call = None
    /\ elastic = ElasticNew
    /\ elastic_call = None
    /\ twin = ElasticNew
    /\ twin_call = None

ClfIdle == dataset = None /\ ClfFresh

-----------------------------------------------------------------------------
(* EnsemblePredictor *)

EnsNew == [prediction |-> None, confidence |-> None, win_probability |-> None]

\* weights = {'xgb': 0.6, 'elastic': 0.4}
WeightXgb == Rat(6, 10)
WeightElastic == Rat(4, 10)

Weighted(a, b) == RAdd(RMul(WeightXgb, a), RMul(WeightElastic, b))

\* Variant: the two weights exchanged.
EnsemblePrediction_WeightsSwapped(xgb_pred, elastic_pred) ==
    LET weighted_pred == RAdd(RMul(WeightElastic, Rat(xgb_pred, 1)),
                              RMul(WeightXgb, Rat(elastic_pred, 1)))
    IN  IF RLe(Rat(1, 2), weighted_pred) THEN 1 ELSE 0

\* Variant: the vote needs a strict majority of the weight.
EnsemblePrediction_Strict(xgb_pred, elastic_pred) ==
    LET weighted_pred == Weighted(Rat(xgb_pred, 1), Rat(elastic_pred, 1))
    IN  IF RLt(Rat(6, 10), weighted_pred) THEN 1 ELSE 0

\* 1 if weighted_pred >= 0.5 else 0
EnsemblePrediction(xgb_pred, elastic_pred) ==
    LET weighted_pred == Weighted(Rat(xgb_pred, 1), Rat(elastic_pred, 1))
    IN  IF RLe(Rat(1, 2), weighted_pred) THEN 1 ELSE 0

\* Variant: the bias is added after the clamp.
WinProbability_BiasAfterClamp(pred, conf, avg_accuracy) ==
    LET base == IF pred = 1 THEN RMul(conf, avg_accuracy)
                ELSE RMul(RSub(One, conf), avg_accuracy)
    IN  RAdd(RMax(Rat(3, 10), RMin(Rat(7, 10), base)), Rat(1, 10))

\* confidence * avg_accuracy (or its complement), plus 0.1, clamped
WinProbability(pred, conf, avg_accuracy) ==
    LET base == IF pred = 1 THEN RMul(conf, avg_accuracy)
                ELSE RMul(RSub(One, conf), avg_accuracy)
    IN  RMax(Rat(3, 10), RMin(Rat(7, 10), RAdd(base, Rat(1, 10))))

\* What the ensemble's most recent completed call produced.
EnsLast == IF ens_call = None THEN None ELSE ens_call.last

\* EnsemblePredictor.fit_predict(X, y): both classifiers with the default
\* test_size, then the weighted combination.  A classifier that raises
\* ends the call with what was assigned so far.
EnsembleFitPredict(X, oA, oB) ==
    \E rA \in {XgbFitPredict(xgb, xgb_call, X, Rat(1, 5), oA)},
       rB \in {ElasticFitPredict(elastic, elastic_call, X, Rat(1, 5), oB)} :
        /\ xgb' = rA.self
        /\ xgb_call' = rA.call
        /\ UNCHANGED <<dataset, twin, twin_call>>
        /\ IF ~rA.call.completed
           THEN /\ UNCHANGED <<elastic, elastic_call, ens>>
                /\ ens_call' = [completed |-> FALSE, last |-> EnsLast]
           ELSE /\ elastic' = rB.self
                /\ elastic_call' = rB.call
                /\ IF ~rB.call.completed
                   THEN /\ UNCHANGED ens
                        /\ ens_call' = [completed |-> FALSE, last |-> EnsLast]
                   ELSE LET xgb_pred     == rA.call.returned[1]
                            xgb_conf     == rA.call.returned[2]
                            elastic_pred == rB.call.returned[1]
                            elastic_conf == rB.call.returned[2]
                            pred == EnsemblePrediction(xgb_pred, elastic_pred)
                            conf == Weighted(xgb_conf, elastic_conf)
                            avg_accuracy == Weighted(rA.self.accuracy,
                                                     rB.self.accuracy)
                            wp == WinProbability(pred, conf, avg_accuracy)
                        IN  /\ ens' = [prediction |-> Some(pred),
                                       confidence |-> conf,
                                       win_probability |-> wp]
                            /\ ens_call' = [completed |-> TRUE,
                                            last |-> [prediction |-> pred,
                                                      confidence |-> conf,
                                                      win_probability |-> wp],
                                            xgb_pred |-> xgb_pred,
                                            xgb_conf |-> xgb_conf,
                                            elastic_pred |-> elastic_pred,
                                            elastic_conf |-> elastic_conf,
                                            xgb_accuracy |-> rA.self.accuracy,
                                            elastic_accuracy |-> rB.self.accuracy]

ens_prediction ==
    IF ens.prediction = None THEN Raised("ValueError")
    ELSE Returned(ens.prediction[1])

ens_confidence ==
    IF ens.confidence = None THEN Raised("ValueError")
    ELSE Returned(ens.confidence)

win_probability ==
    IF ens.win_probability = None THEN Raised("ValueError")
    ELSE Returned(ens.win_probability)

\* round(x * 100, 1): the percentage to one decimal, halves to the even
\* tenth; a non-finite value stays as it is.
RoundPct(x) ==
    IF ~IsFinite(x) THEN x
    ELSE LET n == x[1] * 1000
             q == n \div x[2]
             r == n % x[2]
             tenths == IF 2 * r > x[2] \/ (2 * r = x[2] /\ q % 2 = 1)
                       THEN q + 1 ELSE q
         IN  Rat(tenths, 10)

\* "LONG" if prediction == 1 else "SHORT"
Direction(pred) == IF pred = 1 THEN "LONG" ELSE "SHORT"

\* get_summary() of either classifier: the first property that raises
\* ends it.
ClassifierSummary(self, name) ==
    IF self.prediction = None \/ self.confidence = None \/ self.accuracy = None
    THEN Raised("ValueError")
    ELSE Returned([model |-> name,
                   prediction |-> self.prediction[1],
                   direction |-> Direction(self.prediction[1]),
                   confidence_pct |-> RoundPct(self.confidence),
                   accuracy_pct |-> RoundPct(self.accuracy)])

\* EnsemblePredictor.get_summary() on the objects as they are now.
get_summary ==
    LET xs == ClassifierSummary(xgb, "GradientBoosting")
        es == ClassifierSummary(elastic, "ElasticNet")
    IN  IF xs.raised THEN xs
        ELSE IF es.raised THEN es
        ELSE IF \/ ens.prediction = None \/ ens.confidence = None
                \/ ens.win_probability = None
        THEN Raised("ValueError")
        ELSE Returned([xgboost |-> xs.value,
                       elasticnet |-> es.value,
                       ensemble |->
                           [prediction |-> ens.prediction[1],
                            direction |-> Direction(ens.prediction[1]),
                            confidence_pct |-> RoundPct(ens.confidence),
                            win_probability |-> RoundPct(ens.win_probability)]])

\* Feature matrices handed to the ensemble: MaxRows rows with both labels
\* in the training rows, the most recent row finite or not.
EnsembleInputs ==
    {[i \in 1..MaxRows |->
        Row(i, IF i = MaxRows THEN last ELSE Rat(i, 1), i % 2)] :
            last \in {Rat(MaxRows, 1), Inf}}

\* Library results drawn for the ensemble's classifiers.
XgbOutcomes == Outcomes({0, 1}, {Rat(1, 2), One})
ElasticOutcomes == Outcomes({1}, {Rat(1, 2), One})

EnsembleCall ==
    \E X \in EnsembleInputs, oA \in XgbOutcomes, oB \in ElasticOutcomes :
        EnsembleFitPredict(X, oA, oB)

EnsIdle ==
    /\ ens = EnsNew
    /\ ens_call = None

-----------------------------------------------------------------------------
(* RegimeDetector *)

\* Longest return series drawn.
MaxReturns == 5
\* Most changes of state in a decoded path drawn.
MaxSwitches == 2
\* settings.n_regimes
DefaultRegimes == 3

\* REGIME_NAMES
REGIME_NAMES == [i \in 0..2 |-> <<"HIGH VOL", "MED VOL", "LOW VOL">>[i + 1]]

\* n_regimes or settings.n_regimes, for the constructor arguments drawn.
RegimeCounts == {IF k = 0 THEN DefaultRegimes ELSE k : k \in {0, 2, 3, 4}}

\* returns.dropna()
RECURSIVE DropNa(_)
DropNa(r) ==
    IF Len(r) = 0 THEN <<>>
    ELSE IF Head(r) = NaN THEN DropNa(Tail(r))
    ELSE <<Head(r)>> \o DropNa(Tail(r))

\* The return at position i of the drawn pattern, in percent.
PatternReturn(i) == Rat(<<0, 1, 3>>[((i - 1) % 3) + 1], 100)

\* The return series drawn: a varying series, a flat series, and the
\* varying series behind the leading NaN that pct_change leaves.
ReturnSeries ==
    UNION {{[i \in 1..T |-> PatternReturn(i)],
            [i \in 1..T |-> Zero],
            [i \in 1..T |-> IF i = 1 THEN NaN ELSE PatternReturn(i)]} :
           T \in 0..MaxReturns}

\* The posterior vectors drawn for K states: the rotations of a vector of
\* K distinct probabilities that sum to 1.
Posteriors(K) ==
    LET total == (K * (K + 1)) \div 2
    IN  {[s \in 0..(K - 1) |-> Rat(((s + r) % K) + 1, total)] : r \in 0..(K - 1)}

\* The decoded paths drawn for n observations over K states.
Switches(h) == Cardinality({i \in 2..Len(h) : h[i] # h[i - 1]})
DecodedPaths(n, K) == {h \in [1..n -> 0..(K - 1)] : Switches(h) <= MaxSwitches}

\* The vector q with its entries moved one state on.
Rotated(q) ==
    LET K == Cardinality(DOMAIN q)
    IN  [s \in 0..(K - 1) |-> q[(s + 1) % K]]

\* A return series together with what the seeded library makes of it:
\* whether EM reaches a valid model, the state decoded per cleaned return
\* (predict), the posterior of the last observation taken alone
\* (predict_proba(X[-1:])) and the posterior at the last timestep of the
\* whole series (predict_proba(X)[-1]).  The two posteriors are the same
\* computation when the series has one observation.
Markets(K, m) ==
    \E r \in ReturnSeries :
        \/ m = [returns |-> r, fit_ok |-> FALSE, hidden_states |-> <<>>,
                posterior |-> <<>>, smoothed |-> <<>>]
        \/ /\ Len(DropNa(r)) >= 1
           /\ \E h \in DecodedPaths(Len(DropNa(r)), K), q \in Posteriors(K) :
                  \E f \in IF Len(DropNa(r)) >= 2 THEN {q, Rotated(q)} ELSE {q} :
                      m = [returns |-> r, fit_ok |-> TRUE, hidden_states |-> h,
                           posterior |-> q, smoothed |-> f]

\* The cleaned returns decoded as state i, in order.
StateReturns(clean, hidden, i) ==
    SelectSeq([j \in 1..Len(clean) |-> <<clean[j], hidden[j]>>],
              LAMBDA e : e[2] = i)

\* Variant: a population standard deviation, which is 0 for one return.
Volatility_Population(state_returns) ==
    LET n  == Len(state_returns)
        xs == [j \in 1..n |-> state_returns[j][1]]
        sq == [j \in 1..n |-> RMul(xs[j], xs[j])]
    IN  IF n = 0 THEN Zero
        ELSE RMul(Rat(252, 1),
                  RDiv(RSub(RMul(Rat(n, 1), RSum(sq)), RMul(RSum(xs), RSum(xs))),
                       Rat(n * n, 1)))

\* state_returns.std() * np.sqrt(252) if len(state_returns) > 0 else 0,
\* held as its square, 252 * sample variance: the order of volatilities is
\* the order of their squares.  pandas' std() of one value is NaN.
Volatility(state_returns) ==
    LET n  == Len(state_returns)
        xs == [j \in 1..n |-> state_returns[j][1]]
        sq == [j \in 1..n |-> RMul(xs[j], xs[j])]
    IN  IF n = 0 THEN Zero
        ELSE IF n = 1 THEN NaN
        ELSE RMul(Rat(252, 1),
                  RDiv(RSub(RMul(Rat(n, 1), RSum(sq)), RMul(RSum(xs), RSum(xs))),
                       Rat(n * (n - 1), 1)))

\* Python's < on floats: false whenever an operand is NaN.
FloatLt(a, b) == a # NaN /\ b # NaN /\ RLt(a, b)
FloatGe(a, b) == a # NaN /\ b # NaN /\ RLe(b, a)

Reverse(s) == [i \in 1..Len(s) |-> s[Len(s) + 1 - i]]

\* list.sort's count_run: the length of the run that starts the list,
\* non-descending, or strictly descending when desc.
RECURSIVE RunEnd(_, _, _, _)
RunEnd(L, key, i, desc) ==
    IF i > Len(L) THEN Len(L)
    ELSE IF FloatLt(key[L[i]], key[L[i - 1]]) = desc THEN RunEnd(L, key, i + 1, desc)
    ELSE i - 1

\* list.sort's binarysort: where pivot goes among L[l..r-1].
RECURSIVE BinarySearch(_, _, _, _, _)
BinarySearch(L, key, pivot, l, r) ==
    IF l >= r THEN l
    ELSE LET p == l + ((r - l) \div 2)
         IN  IF FloatLt(key[pivot], key[L[p]])
             THEN BinarySearch(L, key, pivot, l, p)
             ELSE BinarySearch(L, key, pivot, p + 1, r)

RECURSIVE BinarySort(_, _, _)
BinarySort(L, key, start) ==
    IF start > Len(L) THEN L
    ELSE LET pivot == L[start]
             l == BinarySearch(L, key, pivot, 1, start)
         IN  BinarySort(SubSeq(L, 1, l - 1) \o <<pivot>> \o SubSeq(L, l, start - 1)
                          \o SubSeq(L, start + 1, Len(L)),
                        key, start + 1)

\* Variant: sorted without reverse=True (ascending volatility).
SortedDescending_Ascending(keys, key) ==
    IF Len(keys) < 2 THEN keys
    ELSE LET L == keys
             desc == FloatLt(key[L[2]], key[L[1]])
             run == RunEnd(L, key, 3, desc)
             prepared == IF desc
                         THEN Reverse(SubSeq(L, 1, run)) \o SubSeq(L, run + 1, Len(L))
                         ELSE L
         IN  BinarySort(prepared, key, run + 1)

\* Variant: an ascending sort read backwards, which turns ties around.
SortedDescending_TiesReversed(keys, key) ==
    Reverse(SortedDescending_Ascending(keys, key))

\* sorted(keys, key=..., reverse=True) as CPython computes it for a short
\* list: reverse, find the leading run, binary-insert the rest, reverse.
SortedDescending(keys, key) ==
    IF Len(keys) < 2 THEN keys
    ELSE LET L == Reverse(keys)
             desc == FloatLt(key[L[2]], key[L[1]])
             run == RunEnd(L, key, 3, desc)
             prepared == IF desc
                         THEN Reverse(SubSeq(L, 1, run)) \o SubSeq(L, run + 1, Len(L))
                         ELSE L
         IN  Reverse(BinarySort(prepared, key, run + 1))

\* {old: new for new, old in enumerate(sorted_states)}
StateMapping(sorted_states) ==
    [old \in {sorted_states[i] : i \in 1..Len(sorted_states)} |->
        (CHOOSE i \in 1..Len(sorted_states) : sorted_states[i] = old) - 1]

\* reordered_probs[new] = self._regime_probs[old]
Reordered(K, mapping, probs) ==
    [new \in 0..(K - 1) |->
        IF \E old \in DOMAIN mapping : mapping[old] = new
        THEN probs[CHOOSE old \in DOMAIN mapping : mapping[old] = new]
        ELSE Zero]

RegimeFresh ==
    /\ regime_model = None
    /\ volatilities = <<>>
    /\ current_regime = None
    /\ regime_probs = None
    /\ regime_call = None

RegimeIdle ==
    /\ n_regimes = DefaultRegimes
    /\ market = None
    /\ RegimeFresh

RegimeInit ==
    /\ n_regimes \in RegimeCounts
    /\ Markets(n_regimes, market)
    /\ RegimeFresh

\* Variant: only an empty series is rejected.
RegimeFitRaises_EmptyOnly(clean) ==
    ~market.fit_ok \/ Len(clean) = 0

\* model.fit raises on an empty series, on fewer points than states, and
\* whenever the library finds no valid model.
RegimeFitRaises(clean) ==
    ~market.fit_ok \/ Len(clean) = 0 \/ Len(clean) < n_regimes

\* The assignments of fit_predict after a successful fit and decode.
RegimeExpose(clean, vols, sorted_states, mapping) ==
    LET raw_current == market.hidden_states[Len(clean)]
    IN  /\ regime_model' = [fitted |-> TRUE]
        /\ volatilities' = vols
        /\ current_regime' = Some(mapping[raw_current])
        /\ regime_probs' = Reordered(n_regimes, mapping, market.posterior)
        /\ regime_call' = [completed |-> TRUE,
                           hidden_states |-> market.hidden_states,
                           raw_current |-> raw_current,
                           raw_probs |-> market.posterior,
                           state_mapping |-> mapping,
                           returned |-> mapping[raw_current]]

\* fit_predict(returns) on the series the caller holds.
RegimeFitPredict ==
    /\ \E clean \in {DropNa(market.returns)} :
        IF RegimeFitRaises(clean)
        THEN /\ regime_model' = [fitted |-> FALSE]
             /\ regime_call' = [completed |-> FALSE]
             /\ UNCHANGED <<volatilities, current_regime, regime_probs>>
        ELSE \E vols \in {[i \in 0..(n_regimes - 1) |->
                  Volatility(StateReturns(clean, market.hidden_states, i))]} :
             \E sorted_states \in
                  {SortedDescending([i \in 1..n_regimes |-> i - 1], vols)} :
             \E mapping \in {StateMapping(sorted_states)} :
                 RegimeExpose(clean, vols, sorted_states, mapping)
    /\ UNCHANGED <<market, n_regimes>>

regime_current ==
    IF current_regime = None THEN Raised("ValueError")
    ELSE Returned(current_regime[1])

\* {REGIME_NAMES[i]: float(self._regime_probs[i]) for i in range(n_regimes)}
regime_probabilities ==
    IF regime_probs = None THEN Raised("ValueError")
    ELSE IF \E i \in 0..(n_regimes - 1) : i \notin DOMAIN REGIME_NAMES
    THEN Raised("KeyError")
    ELSE Returned([name \in {REGIME_NAMES[i] : i \in 0..(n_regimes - 1)} |->
                     regime_probs[CHOOSE i \in 0..(n_regimes - 1) :
                                      REGIME_NAMES[i] = name]])

-----------------------------------------------------------------------------
(* FeatureEngineer *)

\* Longest price history drawn.
MaxPrices == 54

\* A float whose magnitude is not represented (exponential averages and
\* standard deviations): all that is kept of it is that it is not NaN.
SomeFloat == <<"float">>

\* NaN propagates through +, -, * and /.
FloatOp(a, b) == IF a = NaN \/ b = NaN THEN NaN ELSE SomeFloat

\* Variant: rolling windows with min_periods=1.
RollingReady_MinPeriodsOne(t, window) == t >= 1

\* rolling(window): a value exists from the window-th observation on.
RollingReady(t, window) == t >= window

RECURSIVE SumInts(_, _, _)
SumInts(xs, a, b) == IF a > b THEN 0 ELSE xs[a] + SumInts(xs, a + 1, b)

\* series.rolling(window).mean() at row t, for a series without NaN.
RollingMean(xs, t, window) ==
    IF RollingReady(t, window)
    THEN Rat(SumInts(xs, IF t >= window THEN t - window + 1 ELSE 1, t),
             IF t >= window THEN window ELSE t)
    ELSE NaN

\* series.rolling(window).std() at row t, for a series whose first `lead`
\* values are NaN; the standard deviation of one value is NaN.
RollingStd(t, window, lead) ==
    IF RollingReady(t - lead, window) /\ t - lead >= 2 THEN SomeFloat ELSE NaN

\* series.pct_change(periods) at row t
PctChange(xs, t, periods) ==
    IF t <= periods THEN NaN ELSE Rat(xs[t] - xs[t - periods], xs[t - periods])

\* delta = Close.diff(); delta.where(cond, 0) is 0 where cond fails, which
\* includes the first row, whose delta is NaN.
Gain(xs, t) == IF t > 1 /\ xs[t] > xs[t - 1] THEN xs[t] - xs[t - 1] ELSE 0
Loss(xs, t) == IF t > 1 /\ xs[t] < xs[t - 1] THEN xs[t - 1] - xs[t] ELSE 0

\* 100 - 100 / (1 + gain / loss) with float division: x / 0 is inf for
\* x > 0 and NaN for x = 0.
RSI(xs, t) ==
    IF ~RollingReady(t, 14) THEN NaN
    ELSE LET lo == IF t >= 14 THEN t - 13 ELSE 1
             g == SumInts([i \in 1..Len(xs) |-> Gain(xs, i)], lo, t)
             l == SumInts([i \in 1..Len(xs) |-> Loss(xs, i)], lo, t)
         IN  IF l = 0 THEN (IF g = 0 THEN NaN ELSE Rat(100, 1))
             ELSE Rat(100 * g, g + l)

\* Volume / Volume_SMA_20
VolumeRatio(vs, t) ==
    LET sma == RollingMean(vs, t, 20)
    IN  IF sma = NaN THEN NaN
        ELSE IF sma = Zero THEN (IF vs[t] = 0 THEN NaN ELSE Inf)
        ELSE RDiv(Rat(vs[t], 1), sma)

\* (Returns.shift(-1) > 0).astype(int): a comparison with the NaN that
\* shift leaves in the last row is False.
Target(xs, t) ==
    LET next == IF t = Len(xs) THEN NaN ELSE PctChange(xs, t + 1, 1)
    IN  IF next # NaN /\ RLt(Zero, next) THEN 1 ELSE 0

feature_columns ==
    {"Returns", "SMA_5", "SMA_20", "SMA_50", "MACD", "MACD_Signal", "RSI",
     "Volatility_20", "BB_Width", "Momentum_10", "Momentum_20", "Volume_Ratio"}

\* The columns of df before dropna.
Columns(data) ==
    feature_columns
    \cup {"Close", "EMA_12", "EMA_26", "BB_Middle", "BB_Std", "BB_Upper",
          "BB_Lower", "Target"}
    \cup (IF data.Volume = None THEN {} ELSE {"Volume", "Volume_SMA_20"})

\* Row t of df before dropna; t is its index label.
Engineered(data, t) ==
    LET xs        == data.Close
        bb_middle == RollingMean(xs, t, 20)
        bb_std    == RollingStd(t, 20, 0)
        bb_upper  == FloatOp(bb_middle, bb_std)
        bb_lower  == FloatOp(bb_middle, bb_std)
        cell == [c \in Columns(data) |->
            CASE c = "Close" -> Rat(xs[t], 1)
              [] c = "Volume" -> Rat(data.Volume[t], 1)
              [] c = "Returns" -> PctChange(xs, t, 1)
              [] c = "SMA_5" -> RollingMean(xs, t, 5)
              [] c = "SMA_20" -> RollingMean(xs, t, 20)
              [] c = "SMA_50" -> RollingMean(xs, t, 50)
              [] c \in {"EMA_12", "EMA_26", "MACD", "MACD_Signal"} -> SomeFloat
              [] c = "RSI" -> RSI(xs, t)
              [] c = "Volatility_20" -> RollingStd(t, 20, 1)
              [] c = "BB_Middle" -> bb_middle
              [] c = "BB_Std" -> bb_std
              [] c = "BB_Upper" -> bb_upper
              [] c = "BB_Lower" -> bb_lower
              [] c = "BB_Width" -> FloatOp(FloatOp(bb_upper, bb_lower), bb_middle)
              [] c = "Momentum_10" -> PctChange(xs, t, 10)
              [] c = "Momentum_20" -> PctChange(xs, t, 20)
              [] c = "Volume_SMA_20" -> RollingMean(data.Volume, t, 20)
              [] c = "Volume_Ratio" ->
                    IF data.Volume = None THEN One ELSE VolumeRatio(data.Volume, t)
              [] c = "Target" -> Rat(Target(xs, t), 1)]
    IN  [t |-> t, cell |-> cell]

\* Variant: only the rows before the longest window are removed.
DropNaRows_WarmUpOnly(df) == SubSeq(df, 50, Len(df))

\* df.dropna(): the rows without a NaN in any column, in order.
DropNaRows(df) ==
    SelectSeq(df, LAMBDA row : \A c \in DOMAIN row.cell : row.cell[c] # NaN)

\* df[feature_columns] and df['Target'] of the cleaned frame.
CreateFeaturesResult(data) ==
    LET df == DropNaRows([t \in 1..Len(data.Close) |-> Engineered(data, t)])
    IN  [features |-> [i \in 1..Len(df) |->
                         [t |-> df[i].t,
                          cell |-> [c \in feature_columns |-> df[i].cell[c]]]],
         target |-> [i \in 1..Len(df) |->
                         [t |-> df[i].t, y |-> df[i].cell["Target"][1]]]]

\* The price patterns drawn: rising, alternating, flat, and alternating
\* with a pause of unchanged closes on rows 38..52.
ClosePatterns == {"rising", "zigzag", "flat", "pause"}
ClosePrice(pattern, t) ==
    CASE pattern = "rising" -> 10 + t
      [] pattern = "zigzag" -> 10 + (t % 2)
      [] pattern = "flat" -> 10
      [] pattern = "pause" -> IF t \in 38..52 THEN 10 ELSE 10 + (t % 2)

\* The volume columns drawn: none, constant, and constant with no trading
\* on rows 32..51.
VolumePatterns == {"absent", "steady", "dry"}
VolumeAt(pattern, t) ==
    IF pattern = "dry" /\ t \in 32..51 THEN 0 ELSE 1

PriceFrames ==
    {[Close |-> [t \in 1..n |-> ClosePrice(cp, t)],
      Volume |-> IF vp = "absent" THEN None
                 ELSE [t \in 1..n |-> VolumeAt(vp, t)]] :
        n \in 0..MaxPrices, cp \in ClosePatterns, vp \in VolumePatterns}

FeFresh ==
    /\ fe_features = None
    /\ fe_target = None
    /\ fe_call = None

FeIdle == fe_data = None /\ FeFresh

FeInit == fe_data \in PriceFrames /\ FeFresh

\* create_features()
CreateFeatures ==
    \E r \in {CreateFeaturesResult(fe_data)} :
        /\ fe_features' = r.features
        /\ fe_target' = r.target
        /\ fe_call' = [returned |-> <<r.features, r.target>>]
        /\ UNCHANGED fe_data

\* The (X, y) pair handed to a classifier: the engineered rows with their
\* labels; of the twelve columns the classifier model carries SMA_5.
FeatureMatrix ==
    [i \in 1..Len(fe_features) |->
        Row(fe_features[i].t, fe_features[i].cell["SMA_5"], fe_target[i].y)]

\* EnsemblePredictor.fit_predict(features, target) on the engineered data.
FitOnFeatures ==
    /\ fe_call # None
    /\ \E oA \in SplitOutcomes, oB \in SplitOutcomes :
           EnsembleFitPredict(FeatureMatrix, oA, oB)
    /\ UNCHANGED feVars

-----------------------------------------------------------------------------
(* AICommentary *)

\* str.lower() on the strings that reach it.
Lower(str) ==
    CASE str = "HIGH VOL" -> "high vol"
      [] str = "MED VOL" -> "med vol"
      [] str = "LOW VOL" -> "low vol"
      [] str = "UNKNOWN" -> "unknown"
      [] str = "Unknown" -> "unknown"
      [] str = "LONG" -> "long"
      [] str = "SHORT" -> "short"

\* The text _generate_fallback builds, held as the values it interpolates
\* into its fixed template.
GenerateFallback(ticker, regime_data, model_data, sizing_data, current_price) ==
    LET ensemble   == IF "ensemble" \in DOMAIN model_data
                      THEN model_data["ensemble"] ELSE [k \in {} |-> k]
        direction  == IF "direction" \in DOMAIN ensemble
                      THEN ensemble["direction"] ELSE "Unknown"
        confidence_pct == IF "confidence_pct" \in DOMAIN ensemble
                      THEN ensemble["confidence_pct"] ELSE Zero
        regime_insight ==
            CASE regime_data["current_regime"] = 0 ->
                     "high volatility environment suggests elevated risk"
              [] regime_data["current_regime"] = 1 ->
                     "moderate volatility indicates a transitional market phase"
              [] regime_data["current_regime"] = 2 ->
                     "low volatility environment supports trend continuation"
              [] OTHER -> "current conditions require careful monitoring"
    IN  [template |-> "AUTOMATED ANALYSIS SUMMARY",
         ticker |-> ticker,
         regime_name |-> Lower(regime_data["regime_name"]),
         regime_insight |-> regime_insight,
         direction |-> Lower(direction),
         confidence |-> confidence_pct,
         recommended_pct |-> sizing_data["recommended_pct"],
         consensus |-> IF model_data["xgboost"]["prediction"]
                            = model_data["elasticnet"]["prediction"]
                       THEN "Strong" ELSE "Mixed"]

\* _init_client: the client it leaves in self.client and what it returns.
InitClient(client) ==
    IF groq.api_key = None \/ groq.api_key = Some("")
    THEN [client |-> client, ok |-> FALSE]
    ELSE IF ~groq.constructible THEN [client |-> client, ok |-> FALSE]
    ELSE [client |-> [api_key |-> groq.api_key[1]], ok |-> TRUE]

\* Variant: the remote call without its except clause.
RemoteCommentary_Propagates(response, fallback) ==
    IF response.raised THEN response ELSE Returned(response.content)

\* try: client.chat.completions.create(...) except Exception: fallback
RemoteCommentary(response, fallback) ==
    IF response.raised THEN Returned(fallback) ELSE Returned(response.content)

\* What the remote service does with a request: it raises or answers with
\* some text.
Responses ==
    {[raised |-> TRUE, exc |-> "APIConnectionError"],
     [raised |-> FALSE, content |-> [text |-> "The regime and the models agree."]],
     [raised |-> FALSE, content |-> [text |-> "Signals are mixed; size down."]]}

\* The summaries drawn, of the shapes get_summary() of the regime
\* detector, the ensemble and the sizer return.
RegimeSummaries ==
    {[current_regime |-> r,
      regime_name |-> IF r \in DOMAIN REGIME_NAMES THEN REGIME_NAMES[r] ELSE "UNKNOWN"] :
        r \in {0, 2, 3}}
ModelSummaries ==
    {[xgboost |-> [prediction |-> a],
      elasticnet |-> [prediction |-> b],
      ensemble |-> [prediction |-> a,
                    direction |-> IF a = 1 THEN "LONG" ELSE "SHORT",
                    confidence_pct |-> Rat(3, 5)]] : a \in Labels, b \in Labels}
SizingSummary == [recommended_pct |-> Rat(25, 2), full_kelly_pct |-> Rat(40, 1)]

AiIdle ==
    /\ groq = None
    /\ ai = [client |-> None, commentary |-> None]
    /\ ai_call = None

AiInit ==
    /\ groq \in [api_key : {None, Some(""), Some("gsk")}, constructible : BOOLEAN]
    /\ ai = [client |-> None, commentary |-> None]
    /\ ai_call = None

\* generate(ticker, regime_data, model_data, sizing_data, current_price)
Generate(ticker, regime_data, model_data, sizing_data, current_price, response) ==
    LET init     == InitClient(ai.client)
        fallback == GenerateFallback(ticker, regime_data, model_data,
                                     sizing_data, current_price)
        result   == IF ~init.ok THEN Returned(fallback)
                    ELSE RemoteCommentary(response, fallback)
        args     == [ticker |-> ticker, regime_data |-> regime_data,
                     model_data |-> model_data, sizing_data |-> sizing_data,
                     current_price |-> current_price]
    IN  /\ ai' = [client |-> init.client,
                  commentary |-> IF result.raised THEN ai.commentary
                                 ELSE result.value]
        /\ ai_call' = [args |-> args,
                       remote |-> IF init.ok THEN response ELSE None,
                       result |-> result]
        /\ UNCHANGED groq

GenerateCall ==
    \E ticker \in {"AAPL", "MSFT"}, regime_data \in RegimeSummaries,
       model_data \in ModelSummaries, response \in Responses :
        Generate(ticker, regime_data, model_data, SizingSummary, Rat(150, 1),
                 response)

commentary ==
    IF ai.commentary = None THEN Raised("ValueError")
    ELSE Returned(ai.commentary)

-----------------------------------------------------------------------------
(* DataLoader *)

\* An exception message, held as the fragments it is made of.
Mentions(message, needle) == \E i \in 1..Len(message) : message[i] = needle

Exception(type, message) == [raised |-> TRUE, exc |-> type, message |-> message]

\* What the provider does when asked for stock.info and stock.history: it
\* raises, or it returns a value.
ProviderErrors ==
    {Exception("ConnectionError", <<"Connection timed out">>),
     Exception("Exception", <<"No data", " found, symbol may be delisted">>),
     Exception("KeyError", <<"Invalid ticker", " symbol in response">>)}
ProviderInfos ==
    ProviderErrors \cup
    {Returned(i) : i \in {[k \in {} |-> k],
                          [shortName |-> "Apple"],
                          [shortName |-> "Apple", regularMarketPrice |-> 150]}}
ProviderHistories ==
    ProviderErrors \cup {Returned(h) : h \in {<<>>, <<149>>, <<149, 150, 151>>}}

\* data.tail(days)
Tail_(data, days) ==
    IF Len(data) <= days THEN data ELSE SubSeq(data, Len(data) - days + 1, Len(data))

\* Variant: every exception caught is wrapped.
Surfaced_AlwaysWrapped(e, ticker) ==
    Exception("ValueError", <<"Failed to fetch data", " for ", ticker, ": ">> \o e.message)

\* except Exception as e: re-raise e when its message contains
\* "Invalid ticker" or "No data", otherwise wrap it in a ValueError.
Surfaced(e, ticker) ==
    IF Mentions(e.message, "Invalid ticker") \/ Mentions(e.message, "No data")
    THEN e
    ELSE Exception("ValueError",
                   <<"Failed to fetch data", " for ", ticker, ": ">> \o e.message)

\* fetch(lookback_days) with the provider answering info and history: the
\* object afterwards and what the call returns or raises.
Fetch(self, days, info, history) ==
    IF info.raised THEN [self |-> self, result |-> Surfaced(info, self.ticker)]
    ELSE LET got_info == [self EXCEPT !.info = info.value]
         IN  IF info.value = [k \in {} |-> k]
                \/ "regularMarketPrice" \notin DOMAIN info.value
             THEN [self |-> got_info,
                   result |-> Surfaced(Exception("ValueError",
                                  <<"Invalid ticker", ": ", self.ticker>>),
                                  self.ticker)]
             ELSE IF history.raised
             THEN [self |-> got_info, result |-> Surfaced(history, self.ticker)]
             ELSE IF history.value = <<>>
             THEN [self |-> [got_info EXCEPT !.data = Some(history.value)],
                   result |-> Surfaced(Exception("ValueError",
                                  <<"No data", " available for ticker: ", self.ticker>>),
                                  self.ticker)]
             ELSE LET data == Tail_(history.value, days)
                  IN  [self |-> [got_info EXCEPT !.data = Some(data)],
                       result |-> Returned(data)]

LoaderIdle ==
    /\ loader = None
    /\ loader_call = None

LoaderInit ==
    /\ loader = [ticker |-> "AAPL", data |-> None, info |-> None]
    /\ loader_call = None

\* The frame returned by the latest fetch() that returned (None while
\* none has).
LastReturned == IF loader_call = None THEN None ELSE loader_call.returned

FetchCall ==
    \E days \in {1, 2}, info \in ProviderInfos, history \in ProviderHistories :
        \E r \in {Fetch(loader, days, info, history)} :
            /\ loader' = r.self
            /\ loader_call' = [days |-> days, info |-> info,
                               history |-> IF info.raised THEN None ELSE history,
                               result |-> r.result,
                               returned |-> IF r.result.raised THEN LastReturned
                                            ELSE Some(r.result.value)]

\* The data property.
data ==
    IF loader.data = None
    THEN Exception("ValueError", <<"Data not fetched", ". Call fetch() first.">>)
    ELSE Returned(loader.data[1])

-----------------------------------------------------------------------------
(* QuantLogger *)

\* Threads that call QuantLogger() / get_logger(), calls each may make,
\* and messages logged.
MaxThreads == 2
MaxCalls == 2
MaxMessages == 2

Threads == 1..MaxThreads

LoggerIdle ==
    /\ QuantLogger = None
    /\ objects = None
    /\ handlers = None
    /\ thread = None
    /\ log_file = None

\* The module as imported: no instance, no handler, every thread outside
\* the constructor.
LoggerInit ==
    /\ QuantLogger = [instance |-> None, initialized |-> FALSE]
    /\ objects = <<>>
    /\ handlers = <<>>
    /\ thread = [t \in Threads |->
                    [pc |-> "idle", self |-> None, calls |-> 0, obtained |-> {},
                     sent |-> 0, raised |-> FALSE]]
    /\ log_file = <<>>

\* QuantLogger(): __new__ tests cls._instance.
NewTest(t) ==
    /\ thread[t].pc = "idle"
    /\ thread[t].calls < MaxCalls
    /\ thread' = [thread EXCEPT ![t].calls = @ + 1,
                                ![t].pc = IF QuantLogger.instance = None
                                          THEN "new_create" ELSE "new_return"]
    /\ UNCHANGED <<QuantLogger, objects, handlers, log_file>>

\* cls._instance = super().__new__(cls)
NewCreate(t) ==
    /\ thread[t].pc = "new_create"
    /\ objects' = Append(objects, [has_logger |-> FALSE])
    /\ QuantLogger' = [QuantLogger EXCEPT !.instance = Some(Len(objects) + 1)]
    /\ thread' = [thread EXCEPT ![t].pc = "new_return"]
    /\ UNCHANGED <<handlers, log_file>>

\* return cls._instance; the object returned is the one __init__ runs on.
NewReturn(t) ==
    /\ thread[t].pc = "new_return"
    /\ thread' = [thread EXCEPT ![t].self = QuantLogger.instance,
                                ![t].pc = "init_test"]
    /\ UNCHANGED <<QuantLogger, objects, handlers, log_file>>

\* if QuantLogger._initialized: return
InitTest(t) ==
    /\ thread[t].pc = "init_test"
    /\ thread' = [thread EXCEPT
                    ![t].pc = IF QuantLogger.initialized THEN "idle" ELSE "init_setup",
                    ![t].obtained = IF QuantLogger.initialized
                                    THEN @ \cup {thread[t].self[1]} ELSE @]
    /\ UNCHANGED <<QuantLogger, objects, handlers, log_file>>

\* self.log_dir ... self.logger = logging.getLogger("quantai"); setLevel
InitSetup(t) ==
    /\ thread[t].pc = "init_setup"
    /\ objects' = [objects EXCEPT ![thread[t].self[1]].has_logger = TRUE]
    /\ thread' = [thread EXCEPT ![t].pc = "init_handlers"]
    /\ UNCHANGED <<QuantLogger, handlers, log_file>>

\* if not self.logger.handlers:
InitHandlers(t) ==
    /\ thread[t].pc = "init_handlers"
    /\ thread' = [thread EXCEPT ![t].pc = IF handlers = <<>> THEN "init_add"
                                          ELSE "init_mark"]
    /\ UNCHANGED <<QuantLogger, objects, handlers, log_file>>

\* file_handler = logging.FileHandler(...); self.logger.addHandler(file_handler)
InitAddHandler(t) ==
    /\ thread[t].pc = "init_add"
    /\ handlers' = Append(handlers, [file |-> "logs/system.log", by |-> t])
    /\ thread' = [thread EXCEPT ![t].pc = "init_mark"]
    /\ UNCHANGED <<QuantLogger, objects, log_file>>

\* QuantLogger._initialized = True, and the constructor returns self.
InitMark(t) ==
    /\ thread[t].pc = "init_mark"
    /\ QuantLogger' = [QuantLogger EXCEPT !.initialized = TRUE]
    /\ thread' = [thread EXCEPT ![t].pc = "idle",
                                ![t].obtained = @ \cup {thread[t].self[1]}]
    /\ UNCHANGED <<objects, handlers, log_file>>

\* Every handler of the logger appends the record to its file.
Emitted(message) == [i \in 1..Len(handlers) |-> message]

\* info(message) on an instance the thread obtained: self.logger.info, or
\* AttributeError when __init__ never set self.logger on that object.
Info(t) ==
    /\ thread[t].pc = "idle"
    /\ thread[t].sent < MaxMessages
    /\ \E obj \in thread[t].obtained :
        IF objects[obj].has_logger
        THEN /\ log_file' = log_file \o Emitted([by |-> t, no |-> thread[t].sent + 1])
             /\ thread' = [thread EXCEPT ![t].sent = @ + 1, ![t].raised = FALSE]
        ELSE /\ log_file' = log_file
             /\ thread' = [thread EXCEPT ![t].sent = @ + 1, ![t].raised = TRUE]
    /\ UNCHANGED <<QuantLogger, objects, handlers>>

-----------------------------------------------------------------------------
(* Specifications *)

InitKelly ==
    KellyInit /\ ClfIdle /\ EnsIdle /\ RegimeIdle
    /\ FeIdle /\ AiIdle /\ LoaderIdle /\ LoggerIdle
NextKelly ==
    KellyCalculate
    /\ UNCHANGED <<clfVars, ensVars, regimeVars, feVars, aiVars, loaderVars, loggerVars>>
SpecKelly == InitKelly /\ [][NextKelly]_vars

InitEnsemble ==
    KellyIdle /\ ClfIdle /\ EnsIdle /\ RegimeIdle
    /\ FeIdle /\ AiIdle /\ LoaderIdle /\ LoggerIdle
NextEnsemble ==
    EnsembleCall
    /\ UNCHANGED <<kellyVars, regimeVars, feVars, aiVars, loaderVars, loggerVars>>
SpecEnsemble == InitEnsemble /\ [][NextEnsemble]_vars

InitSplit ==
    KellyIdle /\ dataset \in SplitDatasets /\ ClfFresh /\ EnsIdle /\ RegimeIdle
    /\ FeIdle /\ AiIdle /\ LoaderIdle /\ LoggerIdle
NextSplit ==
    (XgbCall \/ ElasticCall)
    /\ UNCHANGED <<kellyVars, ensVars, regimeVars, feVars, aiVars, loaderVars, loggerVars>>
SpecSplit == InitSplit /\ [][NextSplit]_vars

InitTwin ==
    KellyIdle /\ dataset \in TwinDatasets /\ ClfFresh /\ EnsIdle /\ RegimeIdle
    /\ FeIdle /\ AiIdle /\ LoaderIdle /\ LoggerIdle
NextTwin ==
    (ElasticCall \/ TwinCall)
    /\ UNCHANGED <<kellyVars, ensVars, regimeVars, feVars, aiVars, loaderVars, loggerVars>>
SpecTwin == InitTwin /\ [][NextTwin]_vars

InitRegime ==
    KellyIdle /\ ClfIdle /\ EnsIdle /\ RegimeInit
    /\ FeIdle /\ AiIdle /\ LoaderIdle /\ LoggerIdle
NextRegime ==
    RegimeFitPredict
    /\ UNCHANGED <<kellyVars, clfVars, ensVars, feVars, aiVars, loaderVars, loggerVars>>
SpecRegime == InitRegime /\ [][NextRegime]_vars

InitFeatures ==
    KellyIdle /\ ClfIdle /\ EnsIdle /\ RegimeIdle /\ FeInit /\ AiIdle /\ LoaderIdle /\ LoggerIdle
NextFeatures ==
    \/ CreateFeatures
       /\ UNCHANGED <<kellyVars, clfVars, ensVars, regimeVars, aiVars, loaderVars, loggerVars>>
    \/ FitOnFeatures /\ UNCHANGED <<kellyVars, regimeVars, aiVars, loaderVars, loggerVars>>
SpecFeatures == InitFeatures /\ [][NextFeatures]_vars

InitCommentary ==
    KellyIdle /\ ClfIdle /\ EnsIdle /\ RegimeIdle /\ FeIdle /\ AiInit /\ LoaderIdle /\ LoggerIdle
NextCommentary ==
    GenerateCall
    /\ UNCHANGED <<kellyVars, clfVars, ensVars, regimeVars, feVars, loaderVars, loggerVars>>
SpecCommentary == InitCommentary /\ [][NextCommentary]_vars

InitLoader ==
    KellyIdle /\ ClfIdle /\ EnsIdle /\ RegimeIdle /\ FeIdle /\ AiIdle /\ LoaderInit
    /\ LoggerIdle
NextLoader ==
    FetchCall
    /\ UNCHANGED <<kellyVars, clfVars, ensVars, regimeVars, feVars, aiVars, loggerVars>>
SpecLoader == InitLoader /\ [][NextLoader]_vars

InitLogger ==
    KellyIdle /\ ClfIdle /\ EnsIdle /\ RegimeIdle /\ FeIdle /\ AiIdle /\ LoaderIdle
    /\ LoggerInit
NextLogger ==
    /\ \E t \in Threads :
          \/ NewTest(t)
          \/ NewCreate(t)
          \/ NewReturn(t)
          \/ InitTest(t)
          \/ InitSetup(t)
          \/ InitHandlers(t)
          \/ InitAddHandler(t)
          \/ InitMark(t)
          \/ Info(t)
    /\ UNCHANGED <<kellyVars, clfVars, ensVars, regimeVars, feVars, aiVars,
                   loaderVars>>
SpecLogger == InitLogger /\ [][NextLogger]_vars

-----------------------------------------------------------------------------
(* Claims: KellySizer *)

\* C1: after any calculate call with valid inputs, the returned value and
\* the recommended_size property lie in [0, max_position].
Thm_C1_SizeWithinBounds ==
    kelly_call # None =>
        /\ recommended_size.raised = FALSE
        /\ recommended_size.value = kelly_call.returned
        /\ 0 <= kelly_call.returned[1]
        /\ kelly_call.returned[1] * max_position[2]
              <= max_position[1] * kelly_call.returned[2]

\* A call whose half-Kelly, regime-adjusted value exceeds the ceiling.
Wit_C1_CapBinds ==
    /\ kelly_call # None
    /\ max_position = Rat(1, 4)
    /\ kelly_call.returned = Rat(1, 4)
    /\ RLt(Rat(1, 2), kelly_fraction)
    /\ kelly_call.regime_factor = One

\* The damped product fullKelly * regimeFactor * 0.5 of the last call.
DampedProduct == RMul(RMul(full_kelly.value, kelly_call.regime_factor), Rat(1, 2))

\* p - (1 - p) / b with p clamped and b = avg_win / avg_loss, floored at 0.
ClosedFormKelly ==
    LET c == kelly_call
        p == IF RLt(c.win_probability, Rat(1, 100)) THEN Rat(1, 100)
             ELSE IF RLt(Rat(99, 100), c.win_probability) THEN Rat(99, 100)
             ELSE c.win_probability
        l == IF c.avg_loss[1] = 0 THEN Rat(1, 100) ELSE c.avg_loss
        f == RSub(p, RDiv(RMul(RSub(One, p), l), c.avg_win))
    IN  IF f[1] < 0 THEN Zero ELSE f

\* C2: recommendedSize <= fullKelly * regimeFactor * 0.5, with equality
\* whenever that product does not exceed max_position; fullKelly is the
\* floored Kelly fraction of the clamped probability and the payoff ratio.
Thm_C2_MonotonicDamping ==
    kelly_call # None =>
        /\ full_kelly.raised = FALSE
        /\ full_kelly.value = ClosedFormKelly
        /\ RLe(adjusted_fraction, DampedProduct)
        /\ (RLe(DampedProduct, max_position) => adjusted_fraction = DampedProduct)

\* A call whose damped product is positive and below the ceiling.
Wit_C2_BelowCap ==
    /\ kelly_call # None
    /\ RLt(Zero, adjusted_fraction)
    /\ RLt(adjusted_fraction, max_position)
    /\ kelly_call.regime_factor = Rat(3, 4)

\* C3: with avg_loss = 0 the call completes and yields the fullKelly and
\* recommendedSize of avg_loss = 0.01; p = 0.6, avg_win = 0.02, factor 1,
\* ceiling 0.25 give fullKelly 0.4 and recommendedSize 0.20.
Thm_C3_ZeroLossDefault ==
    (kelly_call # None /\ kelly_call.avg_loss = Zero) =>
        LET c  == kelly_call
            p  == Clip(c.win_probability, Rat(1, 100), Rat(99, 100))
            b  == RDiv(c.avg_win, Rat(1, 100))
            fk == RMax(Zero, RDiv(RSub(RMul(p, b), RSub(One, p)), b))
            rs == RMin(RMul(RMul(fk, Rat(1, 2)), c.regime_factor), max_position)
        IN  /\ kelly_fraction = fk
            /\ adjusted_fraction = rs
            /\ (/\ c.win_probability = Rat(3, 5)
                /\ c.avg_win = Rat(2, 100)
                /\ c.regime_factor = One
                /\ max_position = Rat(1, 4))
               => (kelly_fraction = Rat(2, 5) /\ adjusted_fraction = Rat(1, 5))

\* The scenario call itself.
Wit_C3_Scenario ==
    /\ kelly_call # None
    /\ kelly_call.avg_loss = Zero
    /\ kelly_call.win_probability = Rat(3, 5)
    /\ kelly_call.avg_win = Rat(2, 100)
    /\ kelly_call.regime_factor = One
    /\ max_position = Rat(1, 4)
    /\ adjusted_fraction = Rat(1, 5)

-----------------------------------------------------------------------------
(* Claims: EnsemblePredictor *)

EnsCompleted == ens_call # None /\ ens_call.completed

\* C4: after a completed fit_predict the final prediction is 1 exactly when
\* 0.6 * predictionA + 0.4 * predictionB >= 0.5, for all four combinations;
\* predictionA = 1, predictionB = 0 yields 1.
Thm_C4_WeightedVote ==
    EnsCompleted =>
        /\ ens_call.xgb_pred \in {0, 1} /\ ens_call.elastic_pred \in {0, 1}
        /\ ens_prediction.raised = FALSE
        /\ (ens_prediction.value = 1) <=>
               (6 * ens_call.xgb_pred + 4 * ens_call.elastic_pred >= 5)
        /\ ens_prediction.value \in {0, 1}
        /\ (ens_call.xgb_pred = 1 /\ ens_call.elastic_pred = 0)
              => ens_prediction.value = 1

\* The classifiers disagree, the nonlinear one voting up.
Wit_C4_SplitVote ==
    /\ EnsCompleted
    /\ ens_call.xgb_pred = 1
    /\ ens_call.elastic_pred = 0
    /\ ens.prediction = Some(1)

\* base + 0.10 of the last completed call, before the clamp.
BiasedBase ==
    LET c    == ens_call
        conf == RAdd(RMul(Rat(6, 10), c.xgb_conf), RMul(Rat(4, 10), c.elastic_conf))
        acc  == RAdd(RMul(Rat(6, 10), c.xgb_accuracy),
                     RMul(Rat(4, 10), c.elastic_accuracy))
        base == IF ens.prediction = Some(1) THEN RMul(conf, acc)
                ELSE RMul(RSub(One, conf), acc)
    IN  RAdd(base, Rat(1, 10))

\* C5: after a completed fit_predict, win_probability is base + 0.10
\* clamped to [0.30, 0.70], so it always lies in [0.30, 0.70].
Thm_C5_WinProbabilityClamped ==
    EnsCompleted =>
        /\ win_probability.raised = FALSE
        /\ win_probability.value =
              (IF RLt(BiasedBase, Rat(3, 10)) THEN Rat(3, 10)
               ELSE IF RLt(Rat(7, 10), BiasedBase) THEN Rat(7, 10)
               ELSE BiasedBase)
        /\ RLe(Rat(3, 10), win_probability.value)
        /\ RLe(win_probability.value, Rat(7, 10))

\* A call whose biased base lies strictly inside the clamp range.
Wit_C5_InsideClamp ==
    /\ EnsCompleted
    /\ RLt(Rat(3, 10), ens.win_probability)
    /\ RLt(ens.win_probability, Rat(7, 10))
    /\ ens.win_probability = BiasedBase

\* Calls whose biased base falls below and above the clamp range.
Wit_C5_ClampedLow ==
    EnsCompleted /\ RLt(BiasedBase, Rat(3, 10)) /\ ens.win_probability = Rat(3, 10)

Wit_C5_ClampedHigh ==
    EnsCompleted /\ RLt(Rat(7, 10), BiasedBase) /\ ens.win_probability = Rat(7, 10)

\* C20: with the weights 0.6 / 0.4 and the threshold 0.5 the ensemble's
\* prediction always equals the nonlinear classifier's prediction,
\* whatever the linear classifier predicts.
Thm_C20_NonlinearDecides ==
    EnsCompleted =>
        /\ ens_prediction = Returned(ens_call.xgb_pred)
        /\ ens.prediction = xgb.prediction

\* The linear classifier votes up alone and the ensemble stays down.
Wit_C20_LinearOverruled ==
    /\ EnsCompleted
    /\ ens_call.xgb_pred = 0
    /\ ens_call.elastic_pred = 1
    /\ ens.prediction = Some(0)

\* C21: after any sequence of fit_predict calls on one ensemble, failed
\* ones included, whenever get_summary() returns, its ensemble entry is
\* the 0.6 / 0.4 combination of the xgboost and elasticnet entries of the
\* same summary: the vote of their predictions and the weighted mean of
\* their confidences.
Cex_C21_SummaryFromOneCall ==
    ~get_summary.raised =>
        LET s == get_summary.value
        IN  /\ s.ensemble.prediction
                 = EnsemblePrediction(s.xgboost.prediction, s.elasticnet.prediction)
            /\ s.ensemble.confidence_pct
                 = RoundPct(RDiv(Weighted(s.xgboost.confidence_pct,
                                          s.elasticnet.confidence_pct),
                                 Rat(100, 1)))

-----------------------------------------------------------------------------
(* Claims: the classifiers' chronological split *)

\* The split of a completed call over N rows: the prediction row is row N
\* alone, train followed by test is rows 1..N-1 in order, and the test
\* set has ceil(test_size * (N-1)) rows.
ChronologicalSplit(call) ==
    LET N == call.n_rows
        k == Len(call.test)
        ts == call.test_size
    IN  /\ call.latest = <<N>>
        /\ call.train \o call.test = [i \in 1..(N - 1) |-> i]
        /\ k * ts[2] >= ts[1] * (N - 1)
        /\ (k - 1) * ts[2] < ts[1] * (N - 1)
        /\ \A i \in 1..Len(call.train), j \in 1..k : call.train[i] < call.test[j]
        /\ \A i \in 1..Len(call.train) : call.train[i] # N
        /\ \A j \in 1..k : call.test[j] # N

\* C8: in both classifiers' fit_predict the final row is in neither set
\* and is the only row predicted on, the test set is the last testFraction
\* of the remaining rows and the training set the rows before it.
Thm_C8_ChronologicalSplit ==
    /\ (xgb_call # None /\ xgb_call.completed) => ChronologicalSplit(xgb_call)
    /\ (elastic_call # None /\ elastic_call.completed)
          => ChronologicalSplit(elastic_call)

\* Both classifiers fitted on six rows with half of the rest held out.
Wit_C8_BothSplit ==
    /\ xgb_call # None /\ xgb_call.completed
    /\ elastic_call # None /\ elastic_call.completed
    /\ xgb_call.train = <<1, 2>> /\ xgb_call.test = <<3, 4, 5>>
    /\ xgb_call.latest = <<6>>
    /\ elastic_call.train = <<1, 2>> /\ elastic_call.test = <<3, 4, 5>>
    /\ elastic_call.latest = <<6>>

\* The training slice of a call has fewer than 2 rows or one class only
\* (a slice of no rows or one row has at most one class).
TrainingDegenerate(call) ==
    \/ Len(call.train) < 2
    \/ Cardinality({dataset.X[call.train[i]].y : i \in 1..Len(call.train)}) < 2

\* C15: each classifier's fit_predict fails, returning no prediction,
\* whenever the training slice after the split has fewer than 2 rows or
\* labels of a single class.
Cex_C15_DegenerateFitFails ==
    \A call \in {xgb_call, elastic_call} :
        (call # None /\ TrainingDegenerate(call)) =>
            (~call.completed /\ call.returned = None)

-----------------------------------------------------------------------------
(* Claims: scaling statistics *)

BothFitted ==
    /\ elastic.pipeline # None /\ elastic.pipeline.fitted
    /\ twin.pipeline # None /\ twin.pipeline.fitted

\* The two runs' inputs agree on every training row.
TrainingRowsAgree ==
    /\ elastic_call.train = twin_call.train
    /\ \A i \in 1..Len(elastic_call.train) :
          dataset.X[elastic_call.train[i]] = dataset.X_twin[twin_call.train[i]]

\* C9: two ElasticNetPredictor runs whose inputs agree on every training
\* row use identical scaling statistics and an identical fitted pipeline,
\* however the test rows and the prediction row differ.
Thm_C9_ScalingFromTrainOnly ==
    (BothFitted /\ TrainingRowsAgree) =>
        /\ elastic.pipeline.scaler = twin.pipeline.scaler
        /\ elastic.pipeline = twin.pipeline

\* Two runs that agree on the training rows and differ on the test row and
\* on the prediction row, with a non-degenerate scaler.
Wit_C9_TestRowsDiffer ==
    /\ BothFitted /\ TrainingRowsAgree
    /\ elastic_call.test = <<4>>
    /\ dataset.X[4] # dataset.X_twin[4]
    /\ dataset.X[5] # dataset.X_twin[5]
    /\ elastic.pipeline.scaler.var # Zero

-----------------------------------------------------------------------------
(* Claims: RegimeDetector *)

RegimeCompleted == regime_call # None /\ regime_call.completed

\* The volatility of the raw state that canonical index c stands for.
CanonicalVolatility(c) ==
    volatilities[CHOOSE s \in DOMAIN regime_call.state_mapping :
                    regime_call.state_mapping[s] = c]

\* C6: for every fitted detector the old->new mapping is a bijection on
\* 0..K-1 and volatility is non-increasing in canonical index, also when a
\* state receives no return or exactly one return.
Cex_C6_CanonicalOrdering ==
    RegimeCompleted =>
        /\ DOMAIN regime_call.state_mapping = 0..(n_regimes - 1)
        /\ {regime_call.state_mapping[s] : s \in 0..(n_regimes - 1)}
              = 0..(n_regimes - 1)
        /\ \A c \in 0..(n_regimes - 2) :
              FloatGe(CanonicalVolatility(c), CanonicalVolatility(c + 1))

RECURSIVE SumOver(_, _)
SumOver(f, S) ==
    IF S = {} THEN Zero
    ELSE LET x == CHOOSE x \in S : TRUE
         IN  RAdd(f[x], SumOver(f, S \ {x}))

\* C7: for every configured K, after fit_predict the exposed
\* regimeProbabilities has exactly K entries and they sum to 1.
Cex_C7_ProbabilitiesSumToOne ==
    RegimeCompleted =>
        /\ regime_probabilities.raised = FALSE
        /\ Cardinality(DOMAIN regime_probabilities.value) = n_regimes
        /\ SumOver(regime_probabilities.value, DOMAIN regime_probabilities.value)
              = One

\* The cleaned series of the caller's returns.
CleanReturns == DropNa(market.returns)

Cex_C18_SamePermutation ==
    RegimeCompleted =>
        LET mapping == regime_call.state_mapping
        IN  /\ current_regime =
                  Some(mapping[market.hidden_states[Len(CleanReturns)]])
            /\ \A s \in 0..(n_regimes - 1) :
                  regime_probs[mapping[s]] = market.smoothed[s]

\* The number of states ranked before state s: those of higher volatility
\* and those of equal volatility and lower raw index.
RankOf(s) ==
    Cardinality({j \in 0..(n_regimes - 1) :
                    \/ RLt(volatilities[s], volatilities[j])
                    \/ (volatilities[j] = volatilities[s] /\ j < s)})

\* C19: raw states of identical volatility keep their raw-index order in
\* the canonical relabeling, so that the mapping is determined by the
\* volatility vector.
Thm_C19_TiesKeepRawOrder ==
    RegimeCompleted =>
        LET mapping == regime_call.state_mapping
        IN  /\ \A i \in 0..(n_regimes - 1), j \in 0..(n_regimes - 1) :
                  (i < j /\ volatilities[i] = volatilities[j])
                      => mapping[i] < mapping[j]
            /\ (\A s \in 0..(n_regimes - 1) : volatilities[s] # NaN)
                  => \A s \in 0..(n_regimes - 1) : mapping[s] = RankOf(s)

\* States 0 and 2 tie at volatility 0 behind state 1.
Wit_C19_TieBehindLeader ==
    /\ RegimeCompleted
    /\ n_regimes = 3
    /\ volatilities[0] = Zero /\ volatilities[2] = Zero
    /\ volatilities[1] # NaN /\ RLt(Zero, volatilities[1])
    /\ regime_call.state_mapping = (0 :> 1) @@ (1 :> 0) @@ (2 :> 2)

-----------------------------------------------------------------------------
(* Claims: result properties before and after a call *)

\* A read raises while no call has completed, and afterwards returns what
\* the most recent completed call produced.
Guarded(read, last, field) ==
    IF last = None THEN read.raised
    ELSE read = Returned(last[field])

LastOf(call) == IF call = None THEN None ELSE call.last

\* C10: on an instance on which calculate / fit_predict has never
\* completed every result property raises the usage error; after a
\* completed call it returns that call's value.
Cex_C10_ReadsGuarded ==
    /\ IF kelly_call = None
       THEN full_kelly.raised /\ recommended_size.raised
       ELSE full_kelly = Returned(kelly_fraction)
            /\ recommended_size = Returned(kelly_call.returned)
    /\ IF regime_call = None \/ ~regime_call.completed
       THEN regime_current.raised /\ regime_probabilities.raised
       ELSE regime_current = Returned(regime_call.returned)
    /\ \A f \in {"prediction", "confidence", "accuracy"} :
          /\ Guarded(IF f = "prediction" THEN prediction(xgb)
                     ELSE IF f = "confidence" THEN confidence(xgb)
                     ELSE accuracy(xgb),
                     LastOf(xgb_call), f)
          /\ Guarded(IF f = "prediction" THEN prediction(elastic)
                     ELSE IF f = "confidence" THEN confidence(elastic)
                     ELSE accuracy(elastic),
                     LastOf(elastic_call), f)
    /\ Guarded(ens_prediction, LastOf(ens_call), "prediction")
    /\ Guarded(ens_confidence, LastOf(ens_call), "confidence")
    /\ Guarded(win_probability, LastOf(ens_call), "win_probability")

-----------------------------------------------------------------------------
(* Claims: FeatureEngineer *)

FeReturned == fe_call # None

\* The index labels of the returned matrix and of the returned labels.
FeatureIndex == [i \in 1..Len(fe_features) |-> fe_features[i].t]
TargetIndex == [i \in 1..Len(fe_target) |-> fe_target[i].t]

\* Some of the twelve indicators is undefined in input row t.
IndicatorUndefined(t) ==
    \E c \in feature_columns : Engineered(fe_data, t).cell[c] = NaN

\* C11: create_features returns a matrix and a label series with the same
\* row indices in the same order, no returned row has an undefined
\* indicator, and every input row with an undefined indicator is absent.
Thm_C11_AlignedAndDefined ==
    FeReturned =>
        /\ fe_call.returned = <<fe_features, fe_target>>
        /\ FeatureIndex = TargetIndex
        /\ \A i \in 1..(Len(fe_features) - 1) :
              fe_features[i].t < fe_features[i + 1].t
        /\ \A i \in 1..Len(fe_features) :
              /\ DOMAIN fe_features[i].cell = feature_columns
              /\ \A c \in feature_columns : fe_features[i].cell[c] # NaN
        /\ \A t \in 1..Len(fe_data.Close) :
              (t < 50 \/ IndicatorUndefined(t))
                  => \A i \in 1..Len(fe_features) : fe_features[i].t # t

\* Row 52 is past every warm-up window and still dropped (its RSI is 0/0
\* after fourteen unchanged closes), between rows that are returned.
Wit_C11_RowDroppedInside ==
    /\ FeReturned
    /\ FeatureIndex = <<50, 51, 53, 54>>
    /\ TargetIndex = <<50, 51, 53, 54>>
    /\ IndicatorUndefined(52)

\* C12: a returned row's label is the sign of the next period's return,
\* and the final input row, which has no next observation, is never
\* returned.
Cex_C12_LastRowDropped ==
    FeReturned =>
        LET N == Len(fe_data.Close)
        IN  \A i \in 1..Len(fe_target) :
               /\ fe_target[i].t # N
               /\ fe_features[i].t # N
               /\ fe_target[i].t < N =>
                     (fe_target[i].y = 1 <=>
                         fe_data.Close[fe_target[i].t + 1]
                             > fe_data.Close[fe_target[i].t])

\* C13: with fewer than 50 input rows create_features yields an empty
\* matrix and empty labels, and a fit_predict on them fails: the classifier
\* and the ensemble raise, return nothing and expose no prediction.
Thm_C13_ShortHistoryIsFatal ==
    (FeReturned /\ Len(fe_data.Close) < 50) =>
        /\ fe_features = <<>>
        /\ fe_target = <<>>
        /\ xgb_call # None =>
              /\ ~xgb_call.completed
              /\ xgb_call.returned = None
              /\ prediction(xgb).raised
              /\ elastic_call = None
        /\ ens_call # None =>
              /\ ~ens_call.completed
              /\ ens_prediction.raised

\* A 49-row history whose empty matrix was handed to the ensemble.
Wit_C13_FortyNineRows ==
    /\ FeReturned
    /\ Len(fe_data.Close) = 49
    /\ fe_features = <<>>
    /\ ens_call # None
    /\ ~ens_call.completed
    /\ xgb_call # None

-----------------------------------------------------------------------------
(* Claims: AICommentary *)

\* The key is absent, the client cannot be built, or the remote call of
\* the last generate() failed.
NarratorUnavailable ==
    \/ groq.api_key = None \/ groq.api_key = Some("")
    \/ ~groq.constructible
    \/ ai_call.remote.raised

-----------------------------------------------------------------------------
(* Claims: DataLoader *)

\* The provider raised during the last fetch().
ProviderRaised ==
    \/ loader_call.info.raised
    \/ (loader_call.history # None /\ loader_call.history.raised)

\* The kind of a failure, read from how its message starts.
FailureKind(e) ==
    IF e.message[1] = "Invalid ticker" THEN "invalid instrument"
    ELSE IF Len(e.message) >= 2 /\ e.message[1] = "No data"
            /\ e.message[2] = " available for ticker: " THEN "no data"
    ELSE IF e.message[1] = "Failed to fetch data" THEN "transient"
    ELSE "other"

\* C17: every failure of fetch surfaces as a ValueError of exactly one of
\* the kinds "Invalid ticker", "No data available" and "Failed to fetch
\* data", and an exception raised by the provider is always reported as
\* "Failed to fetch data".
Cex_C17_ThreeFailureKinds ==
    (loader_call # None /\ loader_call.result.raised) =>
        LET e == loader_call.result
        IN  /\ e.exc = "ValueError"
            /\ FailureKind(e) \in {"invalid instrument", "no data", "transient"}
            /\ ProviderRaised => FailureKind(e) = "transient"

\* C22: after any sequence of fetch calls the data property returns a
\* frame only if some fetch returned, and then it is the non-empty frame
\* the latest such fetch returned; while no fetch has returned it raises
\* "Data not fetched".
Cex_C22_DataIsLastReturned ==
    loader # None =>
        IF LastReturned = None
        THEN /\ data.raised
             /\ data.exc = "ValueError"
             /\ data.message[1] = "Data not fetched"
        ELSE /\ ~data.raised
             /\ data.value = LastReturned[1]
             /\ data.value # <<>>

-----------------------------------------------------------------------------
(* Claims: QuantLogger *)

\* The instances handed to any caller so far.
Obtained == UNION {thread[t].obtained : t \in Threads}

\* C23: for any number of QuantLogger() / get_logger() calls, interleaved
\* from concurrent threads or not, all callers obtain the same instance,
\* at most one file handler is attached to the "quantai" logger, and no
\* message is written to the log twice.
Cex_C23_OneInstanceOneHandler ==
    thread # None =>
        /\ Cardinality(Obtained) <= 1
        /\ Len(handlers) <= 1
        /\ \A i, j \in 1..Len(log_file) : log_file[i] = log_file[j] => i = j

=============================================================================
